---- MODULE Spec2Model ----
(***************************************************************************)
(* A model of bin/contigsNew.py: the bedgraph loader (load), the contig    *)
(* caller (rawcontigs), the contig filter (scoredContigs), the per-        *)
(* chromosome aggregator (loadSignal) and the driver loop (main).          *)
(*                                                                         *)
(* A numpy array is a sequence; the element at numpy position p is a[p+1]. *)
(* Scores are non-negative integers; ratios (minCov, maxAnti) are pairs    *)
(* <<numerator, denominator>>.                                             *)
(***************************************************************************)
EXTENDS Integers, Sequences, FiniteSets, TLC

\* ------------------------------------------------------------------ bounds
\* longest signal array the contig caller is tried on
MaxLen == 6
\* largest per-base value of a signal array the contig caller is tried on
MaxVal == 2
\* largest maxGap option the contig caller is tried with
MaxGapB == 2
\* most input files of a run, over all strands
MaxFiles == 3
\* most lines of a file the loader is tried on alone
MaxLines == 4

\* ------------------------------------------------------------ numpy helpers
Min(a, b) == IF a < b THEN a ELSE b

\* np.zeros(n)
zeros(n) == [i \in 1..n |-> 0]

\* a[p] for a numpy position p (0-based)
At(a, p) == a[p + 1]

\* the ascending sequence of the elements of a finite set of integers
SortedSeq(S) ==
  [k \in 1..Cardinality(S) |->
     CHOOSE x \in S : Cardinality({y \in S : y < x}) = k - 1]

RECURSIVE SumTo(_, _, _)
\* a[lo] + ... + a[hi] over sequence indices
SumTo(a, lo, hi) == IF lo > hi THEN 0 ELSE a[hi] + SumTo(a, lo, hi - 1)

\* a[start:stop].sum() : numpy clamps the slice to the array
SumSlice(a, start, stop) == SumTo(a, start + 1, Min(stop, Len(a)))

\* a.sum()
ArraySum(a) == SumTo(a, 1, Len(a))

RECURSIVE PoolTo(_, _, _)
PoolTo(arrs, k, i) == IF k = 0 THEN 0 ELSE arrs[k][i] + PoolTo(arrs, k - 1, i)

\* np.sum(scores, 0) : elementwise sum of a non-empty list of equally long arrays
npSum0(arrs) == [i \in 1..Len(arrs[1]) |-> PoolTo(arrs, Len(arrs), i)]

\* ------------------------------------------------------------- Contig calls
\* np.where(score >= minDepth)[0] : the qualifying positions, ascending
qualifying(score, minDepth) ==
  SortedSeq({p \in 0..(Len(score) - 1) : At(score, p) >= minDepth})

\* np.where(pos[1:] - pos[:-1] > maxGap + 1)[0] : the indices into pos that are
\* followed by a long gap
longGaps(pos, maxGap) ==
  SortedSeq({i \in 0..(Len(pos) - 2) : At(pos, i + 1) - At(pos, i) > maxGap + 1})

\* dist.any() : numpy's any() of an index array is true iff some index is non-zero
distAny(dist) == \E k \in 1..Len(dist) : dist[k] # 0

\* rawTriple with the slice one position too long: score[start:stop+1].sum()
rawTripleInclusive(score, start, stop) ==
  [start |-> start, stop |-> stop, score |-> SumSlice(score, start, stop + 1)]

\* (start, stop, score[start:stop].sum())
rawTriple(score, start, stop) ==
  [start |-> start, stop |-> stop, score |-> SumSlice(score, start, stop)]

\* the sequence of triples rawcontigs yields
rawcontigs(score, maxGap, minDepth) ==
  LET pos == qualifying(score, minDepth)
      dist == longGaps(pos, maxGap)
      n == Len(dist)
  IN IF ~distAny(dist) THEN <<>>
     ELSE <<rawTriple(score, At(pos, 0), At(pos, At(dist, 0)) + 1)>>
          \o [i \in 1..(n - 1) |->
                rawTriple(score, At(pos, At(dist, i - 1) + 1), At(pos, At(dist, i)) + 1)]
          \o <<rawTriple(score, At(pos, At(dist, n - 1) + 1), At(pos, Len(pos) - 1) + 1)>>

\* "(signal[seq]>0).mean > minCov" : the bound method mean is compared, not its
\* result; Python 2 orders a number before any non-number, so the test is true
coverageTest(signal, start, stop, minCov) == TRUE

\* the pooled signal: np.sum(scores,0) if scores else 0
pooled(scores) == IF Len(scores) > 0 THEN npSum0(scores) ELSE <<>>

\* [scr[seq].sum() for scr in tracks]
trackSums(tracks, start, stop) ==
  [k \in 1..Len(tracks) |-> SumSlice(tracks[k], start, stop)]

\* the contig kept by line 86, with its per-track scores
scoredContig(c, scores, antiscores) ==
  [start |-> c.start, stop |-> c.stop, score |-> c.score,
   scores |-> trackSums(scores, c.start, c.stop),
   antiscores |-> trackSums(antiscores, c.start, c.stop)]

\* contig.score > minSig and <coverage test>
keepContig(c, signal, minSig, minCov) ==
  c.score > minSig /\ coverageTest(signal, c.start, c.stop, minCov)

RECURSIVE SelectKept(_, _, _, _, _, _)
SelectKept(raw, signal, scores, antiscores, minSig, minCov) ==
  IF raw = <<>> THEN <<>>
  ELSE (IF keepContig(Head(raw), signal, minSig, minCov)
          THEN <<scoredContig(Head(raw), scores, antiscores)>> ELSE <<>>)
       \o SelectKept(Tail(raw), signal, scores, antiscores, minSig, minCov)

\* the sequence of contigs scoredContigs yields
scoredContigs(scores, minSig, minCov, maxGap, minDepth, antiscores) ==
  LET signal == pooled(scores)
  IN SelectKept(rawcontigs(signal, maxGap, minDepth), signal, scores, antiscores,
                minSig, minCov)

\* checkAntisense with <= for <
checkAntisenseNotStrict(contig, maxAnti) ==
  \E k \in 1..Min(Len(contig.scores), Len(contig.antiscores)) :
     contig.antiscores[k] * maxAnti[1] <= contig.scores[k] * maxAnti[2]

\* Contig.checkAntisense: some zipped pair has ascr * maxAnti < scr (maxAnti is
\* the ratio <<numerator, denominator>>)
checkAntisense(contig, maxAnti) ==
  \E k \in 1..Min(Len(contig.scores), Len(contig.antiscores)) :
     contig.antiscores[k] * maxAnti[1] < contig.scores[k] * maxAnti[2]

\* ------------------------------------------------------------------ catalog
\* readChrFile's result for the catalog the runs use: names in line order
chrs == <<"chr1", "chr2", "chr3">>

\* and the length of each
chrLengths == [c \in {"chr1", "chr2", "chr3"} |->
                 CASE c = "chr1" -> 4 [] c = "chr2" -> 5 [] c = "chr3" -> 4]

\* Python's None (cchr, curChr before the first chromosome)
None == "None"

\* chrs.index(chr)
index(c) == CHOOSE k \in 1..Len(chrs) : chrs[k] = c

\* chr_before(chr, other_chr)
chr_before(c, other) == index(c) < index(other)

\* ------------------------------------------------------------------- load
\* signal[start:stop] = score : the slice is clamped to the array
\* a slice assignment that adds to what is there
SetSliceAdd(a, start, stop, v) ==
  [i \in 1..Len(a) |-> IF start < i /\ i <= stop THEN a[i] + v ELSE a[i]]

SetSlice(a, start, stop, v) ==
  [i \in 1..Len(a) |-> IF start < i /\ i <= stop THEN v ELSE a[i]]

\* one bedgraph line; numeric says whether int()/float() accept its fields
Line(c, start, stop, score) ==
  [chr |-> c, start |-> start, stop |-> stop, score |-> score, numeric |-> TRUE]

\* the generator's state before the first line
loadInit == [cchr |-> None, signal |-> <<>>, skip |-> {}, out |-> <<>>, err |-> FALSE]

\* the loop body without line 53: cchr survives a chromosome that is skipped
loadLineKeepCchr(st, l) ==
  IF st.err \/ l.chr \in st.skip THEN st
  ELSE LET new == st.cchr # l.chr
           flushed == IF new /\ st.cchr # None
                        THEN Append(st.out, [chr |-> st.cchr, sig |-> st.signal])
                        ELSE st.out
       IN IF new /\ l.chr \notin DOMAIN chrLengths
            THEN [st EXCEPT !.out = flushed, !.skip = @ \cup {l.chr}]
            ELSE LET sig0 == IF new THEN zeros(chrLengths[l.chr]) ELSE st.signal
                 IN IF ~l.numeric
                      THEN [st EXCEPT !.out = flushed, !.cchr = l.chr,
                                      !.signal = sig0, !.err = TRUE]
                      ELSE [st EXCEPT !.out = flushed, !.cchr = l.chr,
                                      !.signal = SetSlice(sig0, l.start, l.stop, l.score)]

\* the loop body with the parse of lines 56-58 guarded: a malformed line is passed
\* over
loadLineSkipMalformed(st, l) ==
  IF st.err \/ l.chr \in st.skip THEN st
  ELSE LET new == st.cchr # l.chr
           flushed == IF new /\ st.cchr # None
                        THEN Append(st.out, [chr |-> st.cchr, sig |-> st.signal])
                        ELSE st.out
       IN IF new /\ l.chr \notin DOMAIN chrLengths
            THEN [st EXCEPT !.out = flushed, !.skip = @ \cup {l.chr}, !.cchr = None]
            ELSE LET sig0 == IF new THEN zeros(chrLengths[l.chr]) ELSE st.signal
                 IN IF ~l.numeric
                      THEN [st EXCEPT !.out = flushed, !.cchr = l.chr, !.signal = sig0]
                      ELSE [st EXCEPT !.out = flushed, !.cchr = l.chr,
                                      !.signal = SetSlice(sig0, l.start, l.stop, l.score)]

\* the body of load's for loop on line l; out collects the pairs yielded and err
\* is set when int()/float() raises, which ends the generator
loadLine(st, l) ==
  IF st.err \/ l.chr \in st.skip THEN st
  ELSE LET new == st.cchr # l.chr
           flushed == IF new /\ st.cchr # None
                        THEN Append(st.out, [chr |-> st.cchr, sig |-> st.signal])
                        ELSE st.out
       IN IF new /\ l.chr \notin DOMAIN chrLengths
            THEN [st EXCEPT !.out = flushed, !.skip = @ \cup {l.chr}, !.cchr = None]
            ELSE LET sig0 == IF new THEN zeros(chrLengths[l.chr]) ELSE st.signal
                 IN IF ~l.numeric
                      THEN [st EXCEPT !.out = flushed, !.cchr = l.chr,
                                      !.signal = sig0, !.err = TRUE]
                      ELSE [st EXCEPT !.out = flushed, !.cchr = l.chr,
                                      !.signal = SetSlice(sig0, l.start, l.stop, l.score)]

RECURSIVE loadLines(_, _)
loadLines(st, lines) ==
  IF lines = <<>> THEN st ELSE loadLines(loadLine(st, Head(lines)), Tail(lines))

\* loadEnd without the flush of line 60
loadEndNoFlush(st) == [out |-> st.out, err |-> st.err]

\* line 60, reached when the lines end and nothing was raised: the chromosome in
\* progress is yielded
loadEnd(st) ==
  [out |-> IF ~st.err /\ st.cchr # None
             THEN Append(st.out, [chr |-> st.cchr, sig |-> st.signal])
             ELSE st.out,
   err |-> st.err]

\* load(inp, chrLengths): the pairs the generator yields, in order, and whether it
\* then raises instead of ending
load(lines) == loadEnd(loadLines(loadInit, lines))

\* ------------------------------------------------------------- loadSignal
\* signal = defaultdict(list): a strand is a key iff its list is non-empty
emptySignal(tags) == [t \in tags |-> <<>>]

\* "if signal:" : the dict has a key
hasSignal(signal) == \E t \in DOMAIN signal : signal[t] # <<>>

\* append_zero_signal that appends nothing
append_zero_signalNoFill(signal, c) == signal

\* append_zero_signal(signal, chr)
append_zero_signal(signal, c) ==
  [t \in DOMAIN signal |->
     IF signal[t] = <<>> THEN <<zeros(chrLengths[c])>> ELSE signal[t]]

\* the loop body without line 145: the arrays of the bundle emitted stay in signal
pullStepNoReset(ls, strand, item) ==
  LET cur == IF ls.curChr = None THEN item.chr ELSE ls.curChr
      tags == DOMAIN ls.signal
  IN IF chr_before(item.chr, cur)
       THEN [curChr |-> cur, signal |-> ls.signal, total |-> ls.total, chr |-> item.chr,
             yields |-> <<[chr |-> item.chr,
                           signal |-> append_zero_signal(
                                        [emptySignal(tags) EXCEPT ![strand] = <<item.sig>>],
                                        item.chr),
                           total |-> ArraySum(item.sig)]>>]
       ELSE LET adv == cur # item.chr
                tot0 == IF adv THEN 0 ELSE ls.total
            IN [curChr |-> item.chr,
                signal |-> [ls.signal EXCEPT ![strand] = Append(@, item.sig)],
                total |-> tot0 + ArraySum(item.sig),
                chr |-> item.chr,
                yields |-> IF adv
                             THEN <<[chr |-> cur,
                                     signal |-> append_zero_signal(ls.signal, cur),
                                     total |-> ls.total]>>
                             ELSE <<>>]

\* the body of "for chr, sig in file" for a pair pulled from a file of strand;
\* ls is (curChr, signal, total, chr) and yields the bundles the body emits
pullStep(ls, strand, item) ==
  LET cur == IF ls.curChr = None THEN item.chr ELSE ls.curChr
      tags == DOMAIN ls.signal
  IN IF chr_before(item.chr, cur)
       THEN [curChr |-> cur, signal |-> ls.signal, total |-> ls.total, chr |-> item.chr,
             yields |-> <<[chr |-> item.chr,
                           signal |-> append_zero_signal(
                                        [emptySignal(tags) EXCEPT ![strand] = <<item.sig>>],
                                        item.chr),
                           total |-> ArraySum(item.sig)]>>]
       ELSE LET adv == cur # item.chr
                sig0 == IF adv THEN emptySignal(tags) ELSE ls.signal
                tot0 == IF adv THEN 0 ELSE ls.total
            IN [curChr |-> item.chr,
                signal |-> [sig0 EXCEPT ![strand] = Append(@, item.sig)],
                total |-> tot0 + ArraySum(item.sig),
                chr |-> item.chr,
                yields |-> IF adv
                             THEN <<[chr |-> cur,
                                     signal |-> append_zero_signal(ls.signal, cur),
                                     total |-> ls.total]>>
                             ELSE <<>>]

\* the chromosome line 151 zero-fills the last bundle for: the last one pulled
finalFillChr(ls) == ls.chr

\* loadSignal ending without lines 150-152
finalStepNone(ls) == <<>>

\* lines 150-152: the bundles emitted once every file is exhausted
finalStep(ls) ==
  IF hasSignal(ls.signal)
    THEN <<[chr |-> ls.curChr,
            signal |-> append_zero_signal(ls.signal, finalFillChr(ls)),
            total |-> ls.total]>>
    ELSE <<>>

\* ------------------------------------------------------------------- main
\* the options of the runs (cmdopts): maxGap and minSig are set small enough for
\* the catalog's short chromosomes to hold contigs; the ratios are the defaults
opts == [minSig |-> 1, minCov |-> <<1, 2>>, maxGap |-> 0, minDepth |-> 1,
         maxAnti |-> <<1, 10>>]

\* antisenseStrand = '-' if strand == '+' else '+'
antisenseStrand(strand) == IF strand = "+" THEN "-" ELSE "+"

RECURSIVE addContigsIdOnKeep(_, _, _, _, _)
\* addContigs with "id += 1" under the "if" of line 194
addContigsIdOnKeep(m, cs, c, strand, stranded) ==
  IF cs = <<>> THEN m
  ELSE LET contig == [start |-> Head(cs).start, stop |-> Head(cs).stop,
                      score |-> Head(cs).score, scores |-> Head(cs).scores,
                      antiscores |-> Head(cs).antiscores,
                      chr |-> c, strand |-> strand, id |-> m.id]
           keep == ~stranded \/ checkAntisense(contig, opts.maxAnti)
       IN addContigsIdOnKeep(
            [contigs |-> IF keep THEN Append(m.contigs, contig) ELSE m.contigs,
             id |-> IF keep THEN m.id + 1 ELSE m.id],
            Tail(cs), c, strand, stranded)

RECURSIVE addContigs(_, _, _, _, _)
\* lines 189-195 for the contigs cs scored on one strand; m is (contigs, id)
addContigs(m, cs, c, strand, stranded) ==
  IF cs = <<>> THEN m
  ELSE LET contig == [start |-> Head(cs).start, stop |-> Head(cs).stop,
                      score |-> Head(cs).score, scores |-> Head(cs).scores,
                      antiscores |-> Head(cs).antiscores,
                      chr |-> c, strand |-> strand, id |-> m.id]
           keep == ~stranded \/ checkAntisense(contig, opts.maxAnti)
       IN addContigs([contigs |-> IF keep THEN Append(m.contigs, contig) ELSE m.contigs,
                      id |-> m.id + 1],
                     Tail(cs), c, strand, stranded)

RECURSIVE mainStrands(_, _, _, _)
\* lines 185-195 for the strands (in dict order) of one bundle
mainStrands(m, bundle, order, stranded) ==
  IF order = <<>> THEN m
  ELSE LET strand == Head(order)
           sense == bundle.signal[strand]
           anti == IF stranded THEN bundle.signal[antisenseStrand(strand)] ELSE <<>>
       IN mainStrands(addContigs(m, scoredContigs(sense, opts.minSig, opts.minCov,
                                                  opts.maxGap, opts.minDepth, anti),
                                 bundle.chr, strand, stranded),
                      bundle, Tail(order), stranded)

RECURSIVE mainBundles(_, _, _, _)
\* the body of main's for loop for each bundle of a sequence of bundles
mainBundles(m, bundles, order, stranded) ==
  IF bundles = <<>> THEN m
  ELSE mainBundles(mainStrands(m, Head(bundles), order, stranded),
                   Tail(bundles), order, stranded)

\* the key sorted() uses with --sortOut
sortKey(c) == <<index(c.chr), c.start, c.stop>>

keyLess(a, b) ==
  \/ a[1] < b[1]
  \/ a[1] = b[1] /\ a[2] < b[2]
  \/ a[1] = b[1] /\ a[2] = b[2] /\ a[3] < b[3]

RECURSIVE insertSorted(_, _)
\* c placed after every element whose key is not greater (sorted() is stable)
insertSorted(sorted, c) ==
  IF sorted = <<>> THEN <<c>>
  ELSE IF keyLess(sortKey(c), sortKey(Head(sorted)))
         THEN <<c>> \o sorted
         ELSE <<Head(sorted)>> \o insertSorted(Tail(sorted), c)

RECURSIVE sortContigs(_, _)
sortContigs(acc, cs) ==
  IF cs = <<>> THEN acc ELSE sortContigs(insertSorted(acc, Head(cs)), Tail(cs))

\* ------------------------------------------------------------------ inputs
\* the lines of a file for chromosome c: [0,2) and [3,length) at score v
chromLines(c, v) == <<Line(c, 0, 2, v), Line(c, 3, chrLengths[c], v)>>

RECURSIVE streamOf(_, _)
\* the lines of a file that visits the chromosomes cs in this order
streamOf(cs, v) ==
  IF cs = <<>> THEN <<>> ELSE chromLines(Head(cs), v) \o streamOf(Tail(cs), v)

\* the chromosome orders of the input files: at most two chromosomes, no
\* chromosome twice, in catalog order or not
ChrSeqs ==
  LET C == {chrs[k] : k \in 1..Len(chrs)}
  IN {<<>>} \cup {<<c>> : c \in C}
     \cup {p \in C \X C : p[1] # p[2]}

\* a file with a chromosome the catalog does not have
unknownStream == <<Line("chrUn", 0, 2, 1)>> \o chromLines("chr2", 1)

\* a file with a line whose fields int()/float() reject
malformedStream ==
  chromLines("chr1", 1) \o <<[Line("chr2", 0, 2, 1) EXCEPT !.numeric = FALSE]>>

\* the score of the lines of a file: the files that visit two chromosomes score
\* ten times the others, which is where maxAnti = 0.1 has its boundary
fileScore(cs) == IF Len(cs) = 2 THEN 10 ELSE 1

\* the input files the runs draw from
Streams ==
  {streamOf(cs, fileScore(cs)) : cs \in ChrSeqs} \cup {unknownStream, malformedStream}

\* the per-base arrays the contig caller is tried on
Arrays == UNION {[1..n -> 0..MaxVal] : n \in 0..MaxLen}

\* ------------------------------------------------------------------- state
VARIABLES
  stranded,  \* main: bool(opts.fileM)
  strands,   \* loadSignal: the keys of inp in the order "for strand in inp" visits them
  inp,       \* loadSignal: strand -> the input files (their lines)
  files,     \* loadSignal: strand -> the load generators (what each has left to yield)
  si,        \* loadSignal: the position of "for strand in inp"
  fi,        \* loadSignal: the position of "for file in files[strand]"
  curChr,    \* loadSignal: the cursor
  signal,    \* loadSignal: the bundle in progress
  total,     \* loadSignal: its running total
  chr,       \* loadSignal: the chromosome pulled last
  out,       \* the bundles loadSignal has yielded, in order
  contigs,   \* main: the contigs kept
  id,        \* main: the next contig id
  printed,   \* main: the contigs printed, in order
  pc,        \* where the run is: load, print, done, error (idle: no run)
  call,      \* a direct call of rawcontigs / scoredContigs and what it yielded
  ld         \* a load generator on its own: the lines read and its locals

vars == <<stranded, strands, inp, files, si, fi, curChr, signal, total, chr, out,
          contigs, id, printed, pc, call, ld>>

runVars == <<stranded, strands, inp, files, si, fi, curChr, signal, total, chr, out,
             contigs, id, printed, pc>>

NoCall == [pc |-> "none"]

NoLoad == [pc |-> "none"]

\* the dict orders of the strands of a run
StrandOrders(s) == IF s THEN {<<"+", "-">>, <<"-", "+">>} ELSE {<<"u">>}

\* the state of loadSignal and main when the first pair is about to be pulled
Init ==
  /\ stranded \in BOOLEAN
  /\ strands \in StrandOrders(stranded)
  /\ \E n \in 1..MaxFiles :
       /\ n * Len(strands) <= MaxFiles
       /\ inp \in [{strands[k] : k \in 1..Len(strands)} -> [1..n -> Streams]]
  /\ files = [t \in DOMAIN inp |-> [k \in DOMAIN inp[t] |-> load(inp[t][k])]]
  /\ si = 1
  /\ fi = 1
  /\ curChr = None
  /\ signal = emptySignal(DOMAIN inp)
  /\ total = 0
  /\ chr = None
  /\ out = <<>>
  /\ contigs = <<>>
  /\ id = 1
  /\ printed = <<>>
  /\ pc = "load"
  /\ call = NoCall
  /\ ld = NoLoad

\* loadSignal's locals as pullStep and finalStep take them
lsState == [curChr |-> curChr, signal |-> signal, total |-> total, chr |-> chr]

\* the generator "for chr, sig in file" is pulling from
curFile == files[strands[si]][fi]

\* one pass of "for chr, sig in file": the pair is pulled, a bundle the body
\* yields goes through the body of main's loop, and the body runs to its end
Pull ==
  /\ pc = "load"
  /\ si <= Len(strands)
  /\ curFile.out # <<>>
  /\ LET r == pullStep(lsState, strands[si], Head(curFile.out))
         m == mainBundles([contigs |-> contigs, id |-> id], r.yields, strands, stranded)
     IN /\ curChr' = r.curChr
        /\ signal' = r.signal
        /\ total' = r.total
        /\ chr' = r.chr
        /\ out' = out \o r.yields
        /\ contigs' = m.contigs
        /\ id' = m.id
  /\ files' = [files EXCEPT ![strands[si]][fi].out = Tail(@)]
  /\ UNCHANGED <<stranded, strands, inp, si, fi, printed, pc, call, ld>>

\* the generator is exhausted: the for loops move to the next file or strand
NextFile ==
  /\ pc = "load"
  /\ si <= Len(strands)
  /\ curFile.out = <<>>
  /\ ~curFile.err
  /\ IF fi < Len(files[strands[si]])
       THEN fi' = fi + 1 /\ si' = si
       ELSE fi' = 1 /\ si' = si + 1
  /\ UNCHANGED <<stranded, strands, inp, files, curChr, signal, total, chr, out,
                 contigs, id, printed, pc, call, ld>>

\* the generator raises (a malformed line): the exception ends the run
PullError ==
  /\ pc = "load"
  /\ si <= Len(strands)
  /\ curFile.out = <<>>
  /\ curFile.err
  /\ pc' = "error"
  /\ UNCHANGED <<stranded, strands, inp, files, si, fi, curChr, signal, total, chr,
                 out, contigs, id, printed, call, ld>>

\* lines 150-153: every file is exhausted, the bundle in progress is yielded
Finish ==
  /\ pc = "load"
  /\ si > Len(strands)
  /\ LET ys == finalStep(lsState)
         m == mainBundles([contigs |-> contigs, id |-> id], ys, strands, stranded)
     IN /\ out' = out \o ys
        /\ contigs' = m.contigs
        /\ id' = m.id
  /\ pc' = "print"
  /\ UNCHANGED <<stranded, strands, inp, files, si, fi, curChr, signal, total, chr,
                 printed, call, ld>>

\* lines 196-200: the contigs are printed, sorted first with --sortOut
PrintContigs ==
  /\ pc = "print"
  /\ \E sortOut \in BOOLEAN :
       printed' = IF sortOut THEN sortContigs(<<>>, contigs) ELSE contigs
  /\ pc' = "done"
  /\ UNCHANGED <<stranded, strands, inp, files, si, fi, curChr, signal, total, chr,
                 out, contigs, id, call, ld>>

Next == Pull \/ NextFile \/ PullError \/ Finish \/ PrintContigs

Spec == Init /\ [][Next]_vars

\* --------------------------------------------- direct calls of the callers
\* no run: the variables of loadSignal and main at rest
NoRun ==
  /\ stranded = FALSE
  /\ strands = <<"u">>
  /\ inp = [t \in {"u"} |-> <<>>]
  /\ files = [t \in {"u"} |-> <<>>]
  /\ si = 1
  /\ fi = 1
  /\ curChr = None
  /\ signal = emptySignal({"u"})
  /\ total = 0
  /\ chr = None
  /\ out = <<>>
  /\ contigs = <<>>
  /\ id = 1
  /\ printed = <<>>
  /\ pc = "idle"

\* a signal array and a depth threshold, before any call
InitCall ==
  /\ NoRun
  /\ ld = NoLoad
  /\ \E a \in Arrays, d \in 0..(MaxVal + 1) :
       call = [pc |-> "ready", score |-> a, minDepth |-> d]

\* rawcontigs(score, maxGap, minDepth)
CallRawcontigs ==
  /\ call.pc = "ready"
  /\ \E g \in 0..MaxGapB :
       call' = [pc |-> "raw", score |-> call.score, minDepth |-> call.minDepth,
                maxGap |-> g, raw |-> rawcontigs(call.score, g, call.minDepth)]
  /\ UNCHANGED <<runVars, ld>>

\* rawcontigs again on the same signal and depth, with a maxGap no smaller
CallRawcontigsWider ==
  /\ call.pc = "raw"
  /\ \E g \in call.maxGap..MaxGapB :
       call' = [pc |-> "raw2", score |-> call.score, minDepth |-> call.minDepth,
                maxGap |-> call.maxGap, raw |-> call.raw,
                maxGap2 |-> g, raw2 |-> rawcontigs(call.score, g, call.minDepth)]
  /\ UNCHANGED <<runVars, ld>>

\* scoredContigs on one or two sense tracks, with or without an antisense track
CallScoredContigs ==
  /\ call.pc = "ready"
  /\ \E scores \in {<<call.score>>, <<call.score, call.score>>},
        anti \in {<<>>, <<zeros(Len(call.score))>>},
        minSig \in 0..MaxVal,
        minCov \in {<<1, 2>>, <<1, 1>>},
        g \in 0..MaxGapB :
       call' = [pc |-> "scored", score |-> call.score, minDepth |-> call.minDepth,
                scores |-> scores, antiscores |-> anti, minSig |-> minSig,
                minCov |-> minCov, maxGap |-> g,
                scored |-> scoredContigs(scores, minSig, minCov, g, call.minDepth, anti)]
  /\ UNCHANGED <<runVars, ld>>

NextCall == CallRawcontigs \/ CallRawcontigsWider

\* rawcontigs called directly, once and then again with a maxGap no smaller
SpecCall == InitCall /\ [][NextCall]_vars

\* a signal array and a depth threshold above 0, before any call
InitScore ==
  /\ NoRun
  /\ ld = NoLoad
  /\ \E a \in Arrays, d \in 1..MaxVal :
       call = [pc |-> "ready", score |-> a, minDepth |-> d]

\* scoredContigs called directly
SpecScore == InitScore /\ [][CallScoredContigs]_vars

\* ------------------------------------------------ a load generator on its own
\* the lines a file is made of: two chromosomes of the catalog and one that is
\* not in it, intervals that overlap or run over the end, and a malformed line
LoadLineSet ==
  {Line(c, iv[1], iv[2], iv[3]) :
     c \in {"chr1", "chr2", "chrUn"}, iv \in {<<0, 2, 1>>, <<1, 3, 2>>, <<3, 9, 1>>}}
  \cup {[Line("chr1", 0, 2, 1) EXCEPT !.numeric = FALSE]}

\* load is called: no line read yet
InitLoad ==
  /\ NoRun
  /\ call = NoCall
  /\ ld = [pc |-> "read", seen |-> <<>>, st |-> loadInit]

\* one pass of load's for loop, on the next line of the file; a malformed line
\* makes int()/float() raise, which ends the generator
LoadLine ==
  /\ ld.pc = "read"
  /\ Len(ld.seen) < MaxLines
  /\ \E l \in LoadLineSet :
       LET st == loadLine(ld.st, l)
       IN ld' = [pc |-> IF st.err THEN "error" ELSE "read",
                 seen |-> Append(ld.seen, l), st |-> st]
  /\ UNCHANGED <<runVars, call>>

\* the file ends: line 60
LoadEnd ==
  /\ ld.pc = "read"
  /\ ld' = [pc |-> "done", seen |-> ld.seen,
            st |-> [ld.st EXCEPT !.out = loadEnd(ld.st).out]]
  /\ UNCHANGED <<runVars, call>>

NextLoad == LoadLine \/ LoadEnd

\* load called directly on every file of at most MaxLines lines
SpecLoad == InitLoad /\ [][NextLoad]_vars

\* ================================================================== claims
\* the qualifying positions P of a signal array
QualSet(score, d) == {p \in 0..(Len(score) - 1) : score[p + 1] >= d}

RECURSIVE ExactSum(_, _, _)
\* the sum of score over the positions [start, stop)
ExactSum(score, start, stop) ==
  IF start >= stop THEN 0 ELSE score[start + 1] + ExactSum(score, start + 1, stop)

\* two positions of P with no position of P between them
AdjacentIn(P, p, q) == p \in P /\ q \in P /\ p < q /\ ~\E x \in P : p < x /\ x < q

\* the greatest and the least element of a non-empty set of positions
MaxOf(P) == CHOOSE x \in P : \A y \in P : y <= x
MinOf(P) == CHOOSE x \in P : \A y \in P : x <= y

\* position p lies in the k-th interval of r
InInterval(r, k, p) == r[k].start <= p /\ p < r[k].stop

\* C4: rawcontigs yields exactly one triple, (min P, max P + 1, the sum over it),
\* when P is non-empty and no two adjacent positions of P are more than maxGap+1 apart
C4_SingleRun ==
  call.pc = "raw" =>
    LET P == QualSet(call.score, call.minDepth)
    IN (P # {} /\ \A p \in P, q \in P : AdjacentIn(P, p, q) => q - p <= call.maxGap + 1)
         => call.raw = <<[start |-> MinOf(P), stop |-> MaxOf(P) + 1,
                          score |-> ExactSum(call.score, MinOf(P), MaxOf(P) + 1)]>>

\* C5: the intervals rawcontigs yields partition P: every position of P lies in
\* exactly one interval, and two adjacent positions of P lie in different intervals
\* iff they are more than maxGap+1 apart
C5_Partition ==
  call.pc = "raw" =>
    LET P == QualSet(call.score, call.minDepth)
        r == call.raw
    IN /\ \A p \in P : Cardinality({k \in 1..Len(r) : InInterval(r, k, p)}) = 1
       /\ \A p \in P, q \in P :
            AdjacentIn(P, p, q) =>
              ((~\E k \in 1..Len(r) : InInterval(r, k, p) /\ InInterval(r, k, q))
                 <=> q - p > call.maxGap + 1)

\* the intervals r are within the array, non-empty, in increasing order without
\* overlap, and each carries the exact sum of the signal over it
WellFormedIntervals(score, r) ==
  /\ \A k \in 1..Len(r) :
       /\ 0 <= r[k].start /\ r[k].start < r[k].stop /\ r[k].stop <= Len(score)
       /\ r[k].score = ExactSum(score, r[k].start, r[k].stop)
  /\ \A k \in 1..(Len(r) - 1) : r[k].stop <= r[k + 1].start

\* C6: the intervals rawcontigs yields are pairwise disjoint, in strictly increasing
\* order of start, satisfy 0 <= start < stop <= len(signal), and each score is the
\* exact sum of the signal over [start, stop)
C6_IntervalsWellFormed ==
  /\ call.pc \in {"raw", "raw2"} => WellFormedIntervals(call.score, call.raw)
  /\ call.pc = "raw2" => WellFormedIntervals(call.score, call.raw2)

\* C6's case: a call that yielded a first, a middle and a last interval, and a
\* second call whose interval spans a position that is below the depth threshold
\* and still counts in the sum
C6_Witness ==
  /\ call.pc = "raw2"
  /\ Len(call.raw) >= 3
  /\ \E k \in 1..Len(call.raw2) :
       \E p \in call.raw2[k].start..(call.raw2[k].stop - 1) :
          call.score[p + 1] < call.minDepth /\ call.score[p + 1] > 0

\* C7: with a maxGap no smaller, rawcontigs yields no more intervals, and every
\* interval yielded before is contained in one yielded now
C7_MonotonicMerging ==
  call.pc = "raw2" =>
    /\ Len(call.raw2) <= Len(call.raw)
    /\ \A k \in 1..Len(call.raw) :
         \E j \in 1..Len(call.raw2) :
            call.raw2[j].start <= call.raw[k].start /\ call.raw[k].stop <= call.raw2[j].stop

\* the positions of [start, stop) where the pooled signal is > 0
CoveredCount(sig, start, stop) ==
  Cardinality({p \in start..(stop - 1) : sig[p + 1] > 0})

\* C8: scoredContigs yields no contig whose coverage is <= minCov nor one whose
\* pooled score is <= minSig
C8_StrictFilter ==
  call.pc = "scored" =>
    \A k \in 1..Len(call.scored) :
       LET c == call.scored[k]
       IN /\ c.score > call.minSig
          /\ CoveredCount(pooled(call.scores), c.start, c.stop) * call.minCov[2]
               > call.minCov[1] * (c.stop - c.start)

\* ------------------------------------------------------ claims on the runs
\* the files of the run, as (strand, position in the strand's list)
FileIds == {f \in (DOMAIN inp) \X (1..MaxFiles) : f[2] \in DOMAIN inp[f[1]]}

\* the lines of a file are numeric, on catalog chromosomes, in catalog order
SortedLines(lines) ==
  /\ \A i \in 1..Len(lines) : lines[i].numeric /\ lines[i].chr \in DOMAIN chrLengths
  /\ \A i \in 1..Len(lines), j \in 1..Len(lines) :
       i < j => ~chr_before(lines[j].chr, lines[i].chr)

\* every input file is sorted by chromosome in catalog order
InputsSorted == \A f \in FileIds : SortedLines(inp[f[1]][f[2]])

\* the file has records for chromosome c
HasRecords(f, c) == \E i \in 1..Len(inp[f[1]][f[2]]) : inp[f[1]][f[2]][i].chr = c

\* the pairs the file's loader has yielded so far
Yielded(f) ==
  LET all == load(inp[f[1]][f[2]]).out
  IN SubSeq(all, 1, Len(all) - Len(files[f[1]][f[2]].out))

\* the file has moved past chromosome c: it is exhausted or has yielded a later one
MovedPast(f, c) ==
  \/ files[f[1]][f[2]].out = <<>>
  \/ \E i \in 1..Len(Yielded(f)) : chr_before(c, Yielded(f)[i].chr)

\* the bundles emitted for chromosome c
BundlesFor(c) == {k \in 1..Len(out) : out[k].chr = c}

\* the run has left loadSignal's loop
Exhausted == pc \in {"print", "done"}

\* C1: with sorted inputs, a bundle for C is emitted only after every file has
\* moved past C, so that exactly one bundle is emitted per chromosome and it holds
\* the array of every file that has records for C
C1_BundleAfterAllMovedPast ==
  InputsSorted =>
    /\ \A k \in 1..Len(out) : \A f \in FileIds : MovedPast(f, out[k].chr)
    /\ Exhausted =>
         \A c \in DOMAIN chrLengths :
            (\E f \in FileIds : HasRecords(f, c)) =>
               /\ Cardinality(BundlesFor(c)) = 1
               /\ \A k \in BundlesFor(c) : \A t \in DOMAIN inp :
                    Len(out[k].signal[t])
                      >= Cardinality({f \in FileIds : f[1] = t /\ HasRecords(f, c)})

\* C2: with sorted inputs, no bundle is emitted for a chromosome that precedes the
\* chromosome of an earlier emitted bundle
C2_BundlesInCatalogOrder ==
  InputsSorted =>
    \A i \in 1..Len(out), j \in 1..Len(out) :
       i < j => ~chr_before(out[j].chr, out[i].chr)

\* C3: every emitted bundle has a non-empty list of arrays for every strand of the
\* run, and every array in it has the catalog length of the bundle's chromosome
\* (stated for the runs whose input files are sorted, the inputs the loader is
\* specified for)
C3_BundleArraysComplete ==
  InputsSorted =>
    \A k \in 1..Len(out) : \A t \in DOMAIN inp :
       /\ out[k].signal[t] # <<>>
       /\ \A a \in 1..Len(out[k].signal[t]) :
            Len(out[k].signal[t][a]) = chrLengths[out[k].chr]

\* ---- a whole run of loadSignal and main on given input files
RECURSIVE runItems(_, _, _)
\* "for chr, sig in file" over the pairs a loader yields
runItems(acc, strand, items) ==
  IF items = <<>> THEN acc
  ELSE LET r == pullStep([curChr |-> acc.curChr, signal |-> acc.signal,
                          total |-> acc.total, chr |-> acc.chr], strand, Head(items))
       IN runItems([curChr |-> r.curChr, signal |-> r.signal, total |-> r.total,
                    chr |-> r.chr, out |-> acc.out \o r.yields],
                   strand, Tail(items))

RECURSIVE runFiles(_, _, _)
\* "for file in files[strand]"
runFiles(acc, strand, streams) ==
  IF streams = <<>> THEN acc
  ELSE runFiles(runItems(acc, strand, load(Head(streams)).out), strand, Tail(streams))

RECURSIVE runStrands(_, _, _)
\* "for strand in inp"
runStrands(acc, order, input) ==
  IF order = <<>> THEN acc
  ELSE runStrands(runFiles(acc, Head(order), input[Head(order)]), Tail(order), input)

\* the bundles loadSignal yields on the input files, none of which is malformed
runBundles(input, order) ==
  LET acc == runStrands([curChr |-> None, signal |-> emptySignal(DOMAIN input),
                         total |-> 0, chr |-> None, out |-> <<>>], order, input)
  IN acc.out \o finalStep([curChr |-> acc.curChr, signal |-> acc.signal,
                           total |-> acc.total, chr |-> acc.chr])

\* the pooled signals contigs are called on: (chromosome, strand, pooled array)
PooledSignals(bundles) ==
  {<<bundles[k].chr, t, pooled(bundles[k].signal[t])>> :
     k \in 1..Len(bundles), t \in DOMAIN inp}

\* the contigs as (chromosome, strand, start, stop, score)
ContigSet(cs) ==
  {<<cs[k].chr, cs[k].strand, cs[k].start, cs[k].stop, cs[k].score>> : k \in 1..Len(cs)}

\* the input with the files i and j of strand t exchanged
Swapped(t, i, j) ==
  [inp EXCEPT ![t] = [@ EXCEPT ![i] = inp[t][j], ![j] = inp[t][i]]]

\* no file of the run is malformed
NoMalformed == \A f \in FileIds : ~load(inp[f[1]][f[2]]).err

\* C9: exchanging two files of one strand's list changes neither the pooled signals
\* contigs are called on nor the set of (chromosome, strand, start, stop, score) of
\* the contigs of the run (stated for the runs whose input files are sorted)
C9_FileOrderIrrelevant ==
  (Exhausted /\ InputsSorted) =>
    \A f \in FileIds : \A j \in DOMAIN inp[f[1]] :
       LET other == runBundles(Swapped(f[1], f[2], j), strands)
           cs == mainBundles([contigs |-> <<>>, id |-> 1], other, strands, stranded).contigs
       IN /\ PooledSignals(other) = PooledSignals(out)
          /\ ContigSet(cs) = ContigSet(contigs)

\* C10: every contig of the run has one score per sense-strand input file and one
\* antiscore per antisense-strand input file (none when unstranded); stated for the
\* runs whose input files are sorted and for the chromosomes every file has records for
C10_ScoresPerFile ==
  InputsSorted =>
    \A k \in 1..Len(contigs) :
       (\A f \in FileIds : HasRecords(f, contigs[k].chr)) =>
          /\ Len(contigs[k].scores) = Len(inp[contigs[k].strand])
          /\ Len(contigs[k].antiscores)
               = IF stranded THEN Len(inp[antisenseStrand(contigs[k].strand)]) ELSE 0

\* the run as the actions take it agrees with the run computed in one piece
RunAgrees == (Exhausted /\ NoMalformed) => out = runBundles(inp, strands)

\* --------------------------------------------- claims on ids and the filter
RECURSIVE ScoredOfStrands(_, _)
\* the contigs scoredContigs yields for a bundle, strand after strand
ScoredOfStrands(b, order) ==
  IF order = <<>> THEN <<>>
  ELSE LET t == Head(order)
           ys == scoredContigs(b.signal[t], opts.minSig, opts.minCov, opts.maxGap,
                               opts.minDepth,
                               IF stranded THEN b.signal[antisenseStrand(t)] ELSE <<>>)
       IN [k \in 1..Len(ys) |->
             [start |-> ys[k].start, stop |-> ys[k].stop, score |-> ys[k].score,
              scores |-> ys[k].scores, antiscores |-> ys[k].antiscores,
              chr |-> b.chr, strand |-> t]]
          \o ScoredOfStrands(b, Tail(order))

RECURSIVE ScoredOfBundles(_)
\* every contig scored in the run so far, in discovery order
ScoredOfBundles(bundles) ==
  IF bundles = <<>> THEN <<>>
  ELSE ScoredOfStrands(Head(bundles), strands) \o ScoredOfBundles(Tail(bundles))

\* the k-th contig discovered, with the id k
Discovered ==
  LET all == ScoredOfBundles(out)
  IN [k \in 1..Len(all) |->
        [start |-> all[k].start, stop |-> all[k].stop, score |-> all[k].score,
         scores |-> all[k].scores, antiscores |-> all[k].antiscores,
         chr |-> all[k].chr, strand |-> all[k].strand, id |-> k]]

\* C11: contig ids are positive, pairwise distinct and strictly increasing in
\* discovery order over all bundles and strands; the counter starts at 1, is never
\* reset and advances by one for every scored contig, kept or dropped
C11_IdsInDiscoveryOrder ==
  /\ id = 1 + Len(ScoredOfBundles(out))
  /\ \A k \in 1..Len(contigs) : contigs[k].id >= 1 /\ contigs[k].id < id
  /\ \A i \in 1..Len(contigs), j \in 1..Len(contigs) :
       i < j => contigs[i].id < contigs[j].id
  /\ \A k \in 1..Len(contigs) :
       /\ contigs[k].id <= Len(Discovered)
       /\ Discovered[contigs[k].id] = contigs[k]

\* C11's case: contigs of two chromosomes, and a contig the antisense filter
\* dropped before a contig it kept
C11_Witness ==
  /\ \E i \in 1..Len(contigs), j \in 1..Len(contigs) : contigs[i].chr # contigs[j].chr
  /\ \E k \in 1..Len(contigs) : contigs[k].id > k

\* some zipped pair of the contig has antiscore * maxAnti < score, with maxAnti = 1/10
PassesAntisense(c) ==
  \E i \in 1..Len(c.scores) :
     i <= Len(c.antiscores) /\ c.antiscores[i] < 10 * c.scores[i]

\* the contig is one main keeps: any contig of an unstranded run, and in a
\* stranded run one that passes the antisense test
KeptByMain(c) == ~stranded \/ PassesAntisense(c)

HasMalformed ==
  \E t \in DOMAIN inp : \E k \in DOMAIN inp[t] : \E i \in 1..Len(inp[t][k]) :
    ~inp[t][k][i].numeric /\ inp[t][k][i].chr \in DOMAIN chrLengths

\* every generator has yielded all it had and ended without raising
LoadersExhausted ==
  \A t \in DOMAIN files : \A k \in DOMAIN files[t] :
    files[t][k].out = <<>> /\ ~files[t][k].err

\* C14: a run with a malformed line on a catalog chromosome never gets past
\* loading: it has printed nothing, it is loading or has ended with the error,
\* and while it is loading some file is still being read, so that the pull, the
\* move to the next file or the raise is possible (each uses up a pair or a file,
\* so the run ends, and it can only end in the error). In any run nothing is
\* printed before loadSignal and every loader are exhausted.
C14_MalformedAborts ==
  /\ HasMalformed =>
       /\ printed = <<>>
       /\ pc \in {"load", "error"}
       /\ pc = "load" => si <= Len(strands)
  /\ pc \in {"load", "error"} => printed = <<>>
  /\ pc \in {"print", "done"} => LoadersExhausted /\ si > Len(strands) /\ ~HasMalformed

C14_Witness == HasMalformed /\ pc = "error" /\ contigs # <<>> /\ printed = <<>>


\* the pair pulled last went through the branch of lines 136-140: only there is
\* the chromosome pulled left different from (before) the cursor
StandaloneTaken == chr # None /\ curChr # None /\ chr_before(chr, curChr)

\* C17: when every input file is sorted by chromosome in catalog order, no pair
\* pulled is before the cursor, so the standalone branch of lines 136-140 is never
\* taken; it is taken only in runs where some file breaks the order.
C17_StandaloneUnreachable == InputsSorted => ~StandaloneTaken


\* the pair about to be pulled is before the cursor
PullsBeforeCursor ==
  /\ pc = "load" /\ si <= Len(strands)
  /\ curFile.out # <<>>
  /\ curChr # None
  /\ chr_before(Head(curFile.out).chr, curChr)

\* the bundle the claim describes for a pair pulled from a file of strand t
StandaloneBundle(t, item) ==
  [chr |-> item.chr,
   signal |-> [u \in DOMAIN inp |->
                 IF u = t THEN <<item.sig>>
                 ELSE <<[i \in 1..chrLengths[item.chr] |-> 0]>>],
   total |-> ExactSum(item.sig, 0, Len(item.sig))]

\* C18: a step that pulls a pair whose chromosome is before the cursor emits one
\* bundle, for the chromosome pulled, holding that one array under the strand of
\* the file, one zero array of the chromosome's length under every other strand
\* and the sum of the array as total; the cursor, the bundle in progress and its
\* running total are what they were.
C18_StandaloneBundleFrame ==
  [][PullsBeforeCursor =>
       /\ out' = Append(out, StandaloneBundle(strands[si], Head(curFile.out)))
       /\ curChr' = curChr
       /\ signal' = signal
       /\ total' = total]_vars

C18_Witness ==
  /\ stranded /\ StandaloneTaken /\ hasSignal(signal) /\ total > 0
  /\ out # <<>> /\ out[Len(out)].chr = chr
  /\ \E t \in DOMAIN inp : out[Len(out)].signal[t] = <<zeros(chrLengths[chr])>>


\* the file has yielded a pair for the cursor chromosome
YieldedCursor(f) == \E i \in 1..Len(Yielded(f)) : Yielded(f)[i].chr = curChr

\* the arrays of the cursor chromosome the files of strand t have yielded so far,
\* one per file, in the order of the files
CursorArrays(t) ==
  LET has(k) == YieldedCursor(<<t, k>>)
      ks == SelectSeq([k \in 1..Len(inp[t]) |-> k], has)
  IN [j \in 1..Len(ks) |->
        LET y == Yielded(<<t, ks[j]>>)
        IN y[CHOOSE i \in 1..Len(y) : y[i].chr = curChr].sig]

IsFill(a) == \A i \in 1..Len(a) : a[i] = 0

\* the places of array a in the bundles emitted for chromosome c, under strand t
EmittedAt(t, c, a) ==
  {p \in (1..Len(out)) \X (1..MaxFiles) :
     /\ out[p[1]].chr = c
     /\ p[2] <= Len(out[p[1]].signal[t])
     /\ out[p[1]].signal[t][p[2]] = a}

\* the pairs (file of strand t, position) at which a loader yields array a for
\* chromosome c
YieldedAt(t, c, a) ==
  {p \in (1..Len(inp[t])) \X (1..Len(chrs)) :
     LET all == load(inp[t][p[1]]).out
     IN p[2] <= Len(all) /\ all[p[2]].chr = c /\ all[p[2]].sig = a}

\* every array a loader yields or a bundle holds
RunArrays ==
  UNION {{load(inp[f[1]][f[2]]).out[i].sig : i \in 1..Len(load(inp[f[1]][f[2]]).out)} :
           f \in FileIds}
  \cup UNION {{out[k].signal[t][i] : i \in 1..Len(out[k].signal[t])} :
                k \in 1..Len(out), t \in DOMAIN inp}

RECURSIVE ArraysTotal(_)
ArraysTotal(as) ==
  IF as = <<>> THEN 0
  ELSE ExactSum(Head(as), 0, Len(Head(as))) + ArraysTotal(Tail(as))

RECURSIVE BundleTotal(_, _)
BundleTotal(b, n) ==
  IF n = 0 THEN 0 ELSE ArraysTotal(b.signal[strands[n]]) + BundleTotal(b, n - 1)

\* C20: once loadSignal is exhausted, sorted inputs or not, each array a loader
\* yielded is in the emitted bundles exactly as often as it was yielded, under
\* the strand of its file and in bundles of its own chromosome (none dropped,
\* none emitted twice, nothing but zero-fill added), and the total of each bundle
\* is the sum of all values of the arrays it holds.
C20_ArraysConserved ==
  Exhausted =>
    /\ \A t \in DOMAIN inp : \A c \in DOMAIN chrLengths : \A a \in RunArrays :
         ~IsFill(a) => Cardinality(EmittedAt(t, c, a)) = Cardinality(YieldedAt(t, c, a))
    /\ \A k \in 1..Len(out) :
         /\ out[k].chr \in DOMAIN chrLengths
         /\ out[k].total = BundleTotal(out[k], Len(strands))
    /\ \A f \in FileIds : \A i \in 1..Len(load(inp[f[1]][f[2]]).out) :
         ~IsFill(load(inp[f[1]][f[2]]).out[i].sig)

C20_Witness ==
  /\ Exhausted /\ ~InputsSorted /\ Len(out) >= 3
  /\ \E k \in 1..(Len(out) - 1) : chr_before(out[k + 1].chr, out[k].chr)
  /\ \E k \in 1..Len(out) : \E t \in DOMAIN inp : Len(out[k].signal[t]) = 2

\* ------------------------------------------------------- load on its own
\* what the claims about load read off a state of SpecLoad
seenIdx == 1..Len(ld.seen)

InCatalog(c) == c \in DOMAIN chrLengths

\* the file is grouped by chromosome: the lines of one chromosome are adjacent
Grouped ==
  \A i, j, k \in seenIdx :
    i < j /\ j < k /\ ld.seen[i].chr = ld.seen[k].chr => ld.seen[j].chr = ld.seen[i].chr

AllNumeric == \A i \in seenIdx : ld.seen[i].numeric

HasUnknown == \E i \in seenIdx : ~InCatalog(ld.seen[i].chr)

CatalogSeen == {c \in DOMAIN chrLengths : \E i \in seenIdx : ld.seen[i].chr = c}

\* chromosome c is over: a line of another chromosome was read after it, or the
\* file ended
Completed(c) == ld.pc = "done" \/ ld.seen[Len(ld.seen)].chr # c

PairsOf(c) == {k \in 1..Len(ld.st.out) : ld.st.out[k].chr = c}

\* the value the lines read give position p of chromosome c: the score of the last
\* numeric line of c whose interval covers p, 0.0 when there is none
LastWrite(c, p) ==
  LET cover == {i \in seenIdx : /\ ld.seen[i].chr = c /\ ld.seen[i].numeric
                               /\ ld.seen[i].start <= p /\ p < ld.seen[i].stop}
  IN IF cover = {} THEN 0
     ELSE ld.seen[CHOOSE i \in cover : \A j \in cover : j <= i].score

IsLastWrite(c, sig) ==
  /\ Len(sig) = chrLengths[c]
  /\ \A p \in 0..(chrLengths[c] - 1) : sig[p + 1] = LastWrite(c, p)

\* the lines read, with the fields after the name blanked on every line of a
\* chromosome that is not in the catalog
Scrub(lines) ==
  [i \in 1..Len(lines) |->
     IF InCatalog(lines[i].chr) THEN lines[i]
     ELSE [chr |-> lines[i].chr, start |-> 0, stop |-> 0, score |-> 0,
           numeric |-> FALSE]]

\* C13: a chromosome that is not in the catalog is never yielded and its lines
\* change nothing that is yielded (not even being parsed); the loader goes on
\* after it: in a grouped, numeric file holding such a chromosome, every catalog
\* chromosome that is over, whether it came before or after the unknown one, has
\* been yielded exactly once, with all its records applied.
C13_UnknownChromosomeSkipped ==
  /\ \A k \in 1..Len(ld.st.out) : InCatalog(ld.st.out[k].chr)
  /\ ld.st.out = IF ld.pc = "done" THEN load(Scrub(ld.seen)).out
                 ELSE loadLines(loadInit, Scrub(ld.seen)).out
  /\ (Grouped /\ AllNumeric /\ HasUnknown) =>
       \A c \in CatalogSeen :
         Completed(c) =>
           /\ Cardinality(PairsOf(c)) = 1
           /\ \A k \in PairsOf(c) : IsLastWrite(c, ld.st.out[k].sig)

C13_Witness ==
  /\ ld.pc = "done" /\ Grouped /\ AllNumeric
  /\ \E i, j, k \in seenIdx :
       /\ i < j /\ j < k
       /\ InCatalog(ld.seen[i].chr) /\ ~InCatalog(ld.seen[j].chr)
       /\ InCatalog(ld.seen[k].chr)
  /\ Len(ld.st.out) = 2

\* a line of an unknown chromosome after that chromosome's first line: the loader
\* passes over it without looking at anything else (line 44)
PassedOver(i) ==
  /\ ~InCatalog(ld.seen[i].chr)
  /\ \E j \in seenIdx : j < i /\ ld.seen[j].chr = ld.seen[i].chr

Effective == {i \in seenIdx : ~PassedOver(i)}

\* the first line of a run: a catalog chromosome that differs from the chromosome
\* of the effective line before it
RunStarts ==
  {i \in Effective :
     /\ InCatalog(ld.seen[i].chr)
     /\ \A j \in Effective :
          (j < i /\ \A m \in Effective : ~(j < m /\ m < i)) =>
            ld.seen[j].chr # ld.seen[i].chr}

NthStart(k) == CHOOSE i \in RunStarts : Cardinality({j \in RunStarts : j < i}) = k - 1

\* the lines of the run that starts at line s
RunLines(s) ==
  {i \in Effective :
     /\ s <= i
     /\ \A j \in Effective : (s <= j /\ j <= i) => ld.seen[j].chr = ld.seen[s].chr}

\* the value the run starting at line s gives position p
RunWrite(s, p) ==
  LET cover == {i \in RunLines(s) : /\ ld.seen[i].numeric
                                    /\ ld.seen[i].start <= p /\ p < ld.seen[i].stop}
  IN IF cover = {} THEN 0
     ELSE ld.seen[CHOOSE i \in cover : \A j \in cover : j <= i].score

\* C15: the k-th pair yielded is the k-th run of a catalog chromosome in the file
\* (grouped or not): its array has the catalog length of the chromosome and each
\* position has the score of the last line of the run whose [start, stop) covers
\* it (an interval running over the end is cut at the end, overlapping lines
\* overwrite and do not add), 0.0 where no line of the run covers it.
C15_LastWriteWins ==
  \A k \in 1..Len(ld.st.out) :
    /\ k <= Cardinality(RunStarts)
    /\ LET s == NthStart(k)
           c == ld.seen[s].chr
       IN /\ ld.st.out[k].chr = c
          /\ Len(ld.st.out[k].sig) = chrLengths[c]
          /\ \A p \in 0..(chrLengths[c] - 1) : ld.st.out[k].sig[p + 1] = RunWrite(s, p)

C15_Witness ==
  /\ \E k \in 1..Len(ld.st.out) :
       /\ ld.st.out[k].sig[1] = 1 /\ ld.st.out[k].sig[2] = 2
       /\ ld.st.out[k].sig[4] = 1
       /\ \E i, j \in seenIdx :
            /\ i < j /\ ld.seen[i].chr = ld.st.out[k].chr
            /\ ld.seen[j].chr = ld.st.out[k].chr
            /\ ld.seen[i].start = 0 /\ ld.seen[j].start = 1

\* C16: in a file grouped by chromosome, the chromosomes yielded so far are, in the
\* order of their first line, exactly the catalog chromosomes that are over: each
\* is yielded once when the first line of another chromosome is read, the last one
\* when the file ends, and a file with no line of a catalog chromosome yields
\* nothing.
C16_YieldOnChromosomeChange ==
  Grouped =>
    /\ {ld.st.out[k].chr : k \in 1..Len(ld.st.out)} = {c \in CatalogSeen : Completed(c)}
    /\ \A j, k \in 1..Len(ld.st.out) :
         j < k =>
           \E a, b \in seenIdx :
             /\ a < b
             /\ ld.seen[a].chr = ld.st.out[j].chr
             /\ ld.seen[b].chr = ld.st.out[k].chr
             /\ \A i \in seenIdx : i < b => ld.seen[i].chr # ld.st.out[k].chr

C16_Witness ==
  /\ ld.pc = "done" /\ Grouped /\ Len(ld.seen) = 4
  /\ Len(ld.st.out) = 2 /\ ld.st.out[1].chr = "chr2" /\ ld.st.out[2].chr = "chr1"
====
